---- MODULE Spec2Model ----
(***************************************************************************)
(* Quiz lifecycle status and submission/notification flow of the EMEXA     *)
(* backend (teacherController.js, teacherQuiz.js) and of the teacher's     *)
(* client-side quiz filter (TeacherQuizDraft.jsx).                         *)
(*                                                                         *)
(* Time.  A JavaScript Date is modelled as <<day, ms>>: the local calendar *)
(* day (counted from the first day of the model) and the milliseconds      *)
(* since local midnight.  Dates compare lexicographically.                 *)
(* A time of day "HH:MM" is modelled as <<hour, minute>>, the result of    *)
(* split(':').map(Number) on a well-formed string.                         *)
(* An absent (undefined / null) Date or time of day is Null; an absent     *)
(* string is "" and an absent number is 0, which the code's truthiness     *)
(* tests treat alike.                                                      *)
(***************************************************************************)
EXTENDS Integers, Sequences, FiniteSets, TLC

VARIABLES
    now,            \* the wall clock read by new Date() / Date.now()
    quiz,           \* the TeacherQuiz document
    results,        \* the QuizResult collection, in insertion order
    notifications,  \* the Notification collection, in insertion order
    emails,         \* invocations of the email-delivery collaborator sendEmail
    resp,           \* the response of the request served at this instant
    requests,       \* submitQuizAnswers requests between their reads and their write
    outage          \* the recipients for whom sendEmail rejects

vars == <<now, quiz, results, notifications, emails, resp, requests, outage>>

Null == <<>>
Has(x) == x # Null

(***************************************************************************)
(* Bounds of the model.                                                    *)
(***************************************************************************)
MaxDay == 2          \* the status clock runs over days 0..MaxDay
MaxTicks == 4        \* fine-grained clock instants of the submission flow
MaxResults == 3      \* QuizResult records created in one behaviour
MaxSchedules == 2    \* scheduleQuiz calls in one behaviour
MaxNotes == 3        \* records of the Notification collection of the feed
MaxRequests == 2     \* submitQuizAnswers requests in flight at once

(***************************************************************************)
(* Dates.                                                                  *)
(***************************************************************************)
MsPerSecond == 10 * 100
MsPerMinute == 60 * MsPerSecond
MsPerHour == 60 * MsPerMinute
MsPerDay == 24 * MsPerHour

\* a < b, a <= b on Dates
Before(a, b) == a[1] < b[1] \/ (a[1] = b[1] /\ a[2] < b[2])
AtOrBefore(a, b) == a = b \/ Before(a, b)

\* d.setHours(h, m, s, ms): same local day, the given time of day
setHours(d, h, m, s, ms) == <<d[1], h * MsPerHour + m * MsPerMinute + s * MsPerSecond + ms>>

\* d.setDate(d.getDate() + 1): the next local day, same time of day
nextDay(d) == <<d[1] + 1, d[2]>>

\* new Date(d.getTime() - k), for 0 <= k <= MsPerDay
minusMs(d, k) == IF d[2] >= k THEN <<d[1], d[2] - k>> ELSE <<d[1] - 1, d[2] + MsPerDay - k>>

\* d + k milliseconds, for 0 <= k
plusMs(d, k) == <<d[1] + ((d[2] + k) \div MsPerDay), (d[2] + k) % MsPerDay>>

\* d.setMonth(d.getMonth() + 1): the same day of the next month, for the days of
\* a month of DaysPerMonth days that is followed by a month at least as long
DaysPerMonth == 30
addMonth(d) == <<d[1] + DaysPerMonth, d[2]>>

\* new Date('2099-12-31'): the day number of the sentinel, far after MaxDay
FarFutureDay == 27000
FarFuture == <<FarFutureDay, 0>>


(***************************************************************************)
(* Quiz status at read time.  q is a TeacherQuiz document, t the value of  *)
(* new Date() read by the handler.                                         *)
(***************************************************************************)

\* a variant of the test below that compares the hours alone
midnightCrossoverByHour(startTime, endTime) == endTime[1] < startTime[1]

\* "end time is before start time, quiz spans to next day": rolls over on <=
midnightCrossover(startTime, endTime) ==
    endTime[1] < startTime[1] \/ (endTime[1] = startTime[1] /\ endTime[2] <= startTime[2])

\* the variant of getTeacherActivities: rolls over on < only
activitiesCrossover(startTime, endTime) ==
    endTime[1] < startTime[1] \/ (endTime[1] = startTime[1] /\ endTime[2] < startTime[2])

\* startDateTime = new Date(scheduleDate); startDateTime.setHours(startHour, startMinute, 0, 0)
startDateTime(q) == setHours(q.scheduleDate, q.startTime[1], q.startTime[2], 0, 0)

\* endDateTime of the model methods: scheduleDate at endTime, rolled over midnight
modelEndDateTime(q) ==
    LET e == setHours(q.scheduleDate, q.endTime[1], q.endTime[2], 0, 0)
    IN  IF midnightCrossover(q.startTime, q.endTime) THEN nextDay(e) ELSE e

\* teacherQuizSchema.methods.isCurrentlyActive
isCurrentlyActive(q, t) ==
    IF ~q.isScheduled \/ ~Has(q.scheduleDate) \/ ~Has(q.startTime) \/ ~Has(q.endTime)
    THEN FALSE
    ELSE AtOrBefore(startDateTime(q), t) /\ Before(t, modelEndDateTime(q))

\* teacherQuizSchema.methods.getTimeStatus
getTimeStatus(q, t) ==
    IF ~q.isScheduled \/ ~Has(q.scheduleDate) \/ ~Has(q.startTime) \/ ~Has(q.endTime)
    THEN "unscheduled"
    ELSE IF Before(t, startDateTime(q)) THEN "upcoming"
    ELSE IF AtOrBefore(startDateTime(q), t) /\ Before(t, modelEndDateTime(q)) THEN "active"
    ELSE "expired"

\* teacherQuizSchema.methods.calculateExpiryDate: one month after the end of the
\* window on the schedule day
calculateExpiryDate(q) ==
    IF ~Has(q.scheduleDate) \/ ~Has(q.endTime) THEN Null
    ELSE LET e == setHours(q.scheduleDate, q.endTime[1], q.endTime[2], 0, 0)
         IN  addMonth(IF Has(q.startTime) /\ midnightCrossover(q.startTime, q.endTime)
                      THEN nextDay(e) ELSE e)

\* the pre('save') hook: the expiry date is calculated when the scheduled quiz
\* has none yet
preSave(q) ==
    IF q.isScheduled /\ Has(q.scheduleDate) /\ Has(q.endTime) /\ ~Has(q.expiryDate)
    THEN [q EXCEPT !.expiryDate = calculateExpiryDate(q)]
    ELSE q

\* endDateTime of getTeacherQuizzes
teacherQuizzesEnd(q) ==
    IF Has(q.dueDate) THEN setHours(q.dueDate, 23, 59, 59, 999)
    ELSE IF Has(q.endTime) THEN
        LET e == setHours(q.scheduleDate, q.endTime[1], q.endTime[2], 0, 0)
        IN  IF midnightCrossover(q.startTime, q.endTime) THEN nextDay(e) ELSE e
    ELSE FarFuture

\* a variant of the status below that recomputes it whether or not isScheduled
teacherQuizzesStatusAlways(q, t) ==
    IF Has(q.scheduleDate) /\ Has(q.startTime) /\ Has(q.endTime)
    THEN IF Before(t, startDateTime(q)) THEN "scheduled"
         ELSE IF AtOrBefore(startDateTime(q), t) /\ Before(t, teacherQuizzesEnd(q)) THEN "active"
         ELSE "closed"
    ELSE q.status

\* quizObj.status of getTeacherQuizzes
teacherQuizzesStatus(q, t) ==
    IF q.isScheduled /\ Has(q.scheduleDate) /\ Has(q.startTime) /\ Has(q.endTime)
    THEN IF Before(t, startDateTime(q)) THEN "scheduled"
         ELSE IF AtOrBefore(startDateTime(q), t) /\ Before(t, teacherQuizzesEnd(q)) THEN "active"
         ELSE "closed"
    ELSE q.status

\* endDateTime of getQuizStats
quizStatsEnd(q) ==
    IF Has(q.dueDate) THEN setHours(q.dueDate, 23, 59, 59, 999)
    ELSE IF Has(q.endTime) THEN
        LET e == setHours(q.scheduleDate, q.endTime[1], q.endTime[2], 0, 0)
        IN  IF midnightCrossover(q.startTime, q.endTime) THEN nextDay(e) ELSE e
    ELSE FarFuture

\* isUpcoming, isCurrentlyActive, isExpired of getQuizStats
quizStatsFlags(q, t) ==
    IF q.isScheduled /\ Has(q.scheduleDate) /\ Has(q.startTime) /\ Has(q.endTime)
    THEN [isUpcoming |-> Before(t, startDateTime(q)),
          isCurrentlyActive |-> AtOrBefore(startDateTime(q), t) /\ Before(t, quizStatsEnd(q)),
          isExpired |-> AtOrBefore(quizStatsEnd(q), t)]
    ELSE [isUpcoming |-> FALSE, isCurrentlyActive |-> FALSE, isExpired |-> FALSE]

\* the formattedStats counter getQuizStats increments for q ("none": no counter)
quizStatsBucket(q, t) ==
    LET f == quizStatsFlags(q, t)
    IN  IF q.isScheduled
        THEN IF f.isUpcoming THEN "scheduled"
             ELSE IF f.isCurrentlyActive THEN "active"
             ELSE IF f.isExpired THEN "closed"
             ELSE "none"
        ELSE IF q.status = "draft" THEN "drafts"
             ELSE IF q.status = "active" THEN "active"
             ELSE IF q.status = "scheduled" THEN "scheduled"
             ELSE IF q.status = "closed" \/ q.status = "completed" THEN "closed"
             ELSE "none"

\* actualStatus of getTeacherActivities
teacherActivitiesStatus(q, t) ==
    IF q.isScheduled /\ Has(q.scheduleDate) /\ Has(q.startTime) /\ Has(q.endTime)
    THEN LET e == setHours(q.scheduleDate, q.endTime[1], q.endTime[2], 0, 0)
             end == IF activitiesCrossover(q.startTime, q.endTime) THEN nextDay(e) ELSE e
         IN  IF Before(t, startDateTime(q)) THEN "scheduled"
             ELSE IF AtOrBefore(startDateTime(q), t) /\ Before(t, end) THEN "active"
             ELSE "closed"
    ELSE q.status

\* status reported per quiz by getRecentQuizzes
recentQuizzesStatus(q, t) == q.status

\* the counters of getTeacherStats, over the teacher's quizzes qs
teacherStatsCounts(qs, t) ==
    [totalQuizzes |-> Len(qs),
     draftQuizzes |-> Cardinality({i \in 1..Len(qs) : qs[i].status = "draft"}),
     scheduledQuizzes |-> Cardinality({i \in 1..Len(qs) : qs[i].isScheduled}),
     activeQuizzes |-> Cardinality({i \in 1..Len(qs) : qs[i].status = "active"}),
     closedQuizzes |-> Cardinality({i \in 1..Len(qs) : qs[i].status = "closed"})]

\* endDateTime of getSharedQuizzes (Null: left undefined)
sharedQuizzesEnd(q) ==
    IF Has(q.dueDate) THEN setHours(q.dueDate, 23, 59, 59, 999)
    ELSE IF Has(q.endTime) THEN
        LET e == setHours(q.scheduleDate, q.endTime[1], q.endTime[2], 0, 0)
        IN  IF midnightCrossover(q.startTime, q.endTime) THEN nextDay(e) ELSE e
    ELSE Null

\* timeStatus of getSharedQuizzes; isCurrentlyActive is (timeStatus = 'active')
sharedQuizzesTimeStatus(q, t) ==
    IF Has(q.scheduleDate) /\ Has(q.startTime)
    THEN LET upcoming == Before(t, startDateTime(q))
             end == sharedQuizzesEnd(q)
         IN  IF Has(end) /\ Before(end, t) THEN "expired"
             ELSE IF upcoming THEN "upcoming"
             ELSE "active"
    ELSE "active"

\* endDateTime of the client's filteredQuizzes
filteredQuizzesEnd(q) ==
    IF Has(q.dueDate) /\ Has(q.endTime) THEN setHours(q.dueDate, q.endTime[1], q.endTime[2], 0, 0)
    ELSE IF Has(q.dueDate) THEN setHours(q.dueDate, 23, 59, 59, 999)
    ELSE IF Has(q.endTime) THEN
        LET e == setHours(q.scheduleDate, q.endTime[1], q.endTime[2], 0, 0)
        IN  IF midnightCrossover(q.startTime, q.endTime) THEN nextDay(e) ELSE e
    ELSE FarFuture

\* isUpcoming, isCurrentlyActive, isExpired of the client's filteredQuizzes
filteredQuizzesFlags(q, t) ==
    IF q.isScheduled /\ Has(q.scheduleDate) /\ Has(q.startTime)
    THEN [isUpcoming |-> Before(t, startDateTime(q)),
          isCurrentlyActive |-> AtOrBefore(startDateTime(q), t) /\ Before(t, filteredQuizzesEnd(q)),
          isExpired |-> AtOrBefore(filteredQuizzesEnd(q), t)]
    ELSE [isUpcoming |-> FALSE, isCurrentlyActive |-> FALSE, isExpired |-> FALSE]

\* whether the client shows q under the tab filterStatus
filteredQuizzesShown(q, t, filterStatus) ==
    LET f == filteredQuizzesFlags(q, t)
    IN  IF filterStatus = "all" THEN TRUE
        ELSE IF filterStatus = "draft" THEN q.status = "draft" /\ ~q.isScheduled
        ELSE IF filterStatus = "scheduled" THEN q.isScheduled /\ f.isUpcoming /\ ~f.isExpired
        ELSE IF filterStatus = "active"
             THEN IF q.isScheduled THEN f.isCurrentlyActive ELSE q.status = "active"
        ELSE IF filterStatus = "recentActivity"
             THEN IF q.status = "completed" \/ q.status = "closed" THEN TRUE
                  ELSE IF q.isScheduled /\ Has(q.scheduleDate) /\ Has(q.endTime)
                  THEN LET st == IF Has(q.startTime) THEN q.startTime ELSE <<0, 0>>
                           e == setHours(q.scheduleDate, q.endTime[1], q.endTime[2], 0, 0)
                           end == IF activitiesCrossover(st, q.endTime) THEN nextDay(e) ELSE e
                           thirtyDaysAgo == <<t[1] - 30, t[2]>>
                       IN  Before(end, t) /\ Before(thirtyDaysAgo, end)
                  ELSE FALSE
        ELSE TRUE


(***************************************************************************)
(* The collections the handlers read but never write.                      *)
(***************************************************************************)

\* the Student collection: semester, year, whether an email address is stored,
\* and notificationSettings.emailNotifications and .inAppNotifications ("unset"
\* when absent)
Students ==
    [s1 |-> [semester |-> "1st semester", year |-> "1st year", hasEmail |-> TRUE,
             emailNotifications |-> "unset",
             inAppNotifications |-> "unset"],
     s2 |-> [semester |-> "1st semester", year |-> "2nd year", hasEmail |-> TRUE,
             emailNotifications |-> "off",
             inAppNotifications |-> "on"],
     s3 |-> [semester |-> "2nd semester", year |-> "1st year", hasEmail |-> FALSE,
             emailNotifications |-> "on",
             inAppNotifications |-> "off"],
     s4 |-> [semester |-> "2nd semester", year |-> "2nd year", hasEmail |-> TRUE,
             emailNotifications |-> "on",
             inAppNotifications |-> "unset"]]

StudentIds == DOMAIN Students

\* the Teacher document owning the quiz
TeacherId == "t1"
Teacher == [hasEmail |-> TRUE, emailNotifications |-> "unset"]

\* yearStrings of scheduleQuiz / createQuizNotification ("": no entry)
yearStrings(academicYear) ==
    IF academicYear = 1 THEN "1st year"
    ELSE IF academicYear = 2 THEN "2nd year"
    ELSE IF academicYear = 3 THEN "3rd year"
    ELSE IF academicYear = 4 THEN "4th year"
    ELSE ""

\* yearMapping of getSharedQuizzes (0: no entry)
yearMapping(year) ==
    IF year = "1st year" THEN 1
    ELSE IF year = "2nd year" THEN 2
    ELSE IF year = "3rd year" THEN 3
    ELSE IF year = "4th year" THEN 4
    ELSE 0

(***************************************************************************)
(* The quiz document.  questions[i] is the index of the first option of    *)
(* question i flagged isCorrect (findIndex), -1 when there is none.        *)
(***************************************************************************)
Questions == <<0, 1, -1>>

\* the document createQuiz saves, with the schema's defaults
createdQuiz ==
    [teacherId |-> TeacherId, questions |-> Questions,
     semester |-> "", academicYear |-> 0, maxAttempts |-> 1,
     isScheduled |-> FALSE, scheduleDate |-> Null, startTime |-> Null, endTime |-> Null,
     dueDate |-> Null, expiryDate |-> Null, status |-> "draft", isDeleted |-> FALSE]

NoResp == [op |-> "none"]

\* TeacherQuiz.find({ teacherId, isDeleted: false })
teacherQuizzes == IF quiz.isDeleted THEN <<>> ELSE <<quiz>>

\* a variant of the count below that leaves abandoned attempts out
countAttemptsCompleted(rs, userId) ==
    Cardinality({i \in 1..Len(rs) : rs[i].userId = userId /\ ~rs[i].abandoned})

\* QuizResult.countDocuments({ userId, quizId })
countAttempts(rs, userId) == Cardinality({i \in 1..Len(rs) : rs[i].userId = userId})

(***************************************************************************)
(* Read handlers.  Each leaves the store alone and answers in resp.        *)
(***************************************************************************)
getTeacherQuizzes ==
    /\ resp' = [op |-> "getTeacherQuizzes",
                quizzes |-> [i \in 1..Len(teacherQuizzes) |->
                                [status |-> teacherQuizzesStatus(teacherQuizzes[i], now)]]]
    /\ UNCHANGED <<now, quiz, results, notifications, emails, requests, outage>>

getQuizStats ==
    LET qs == teacherQuizzes
        n(b) == Cardinality({i \in 1..Len(qs) : quizStatsBucket(qs[i], now) = b})
    IN  /\ resp' = [op |-> "getQuizStats",
                    flags |-> [i \in 1..Len(qs) |-> quizStatsFlags(qs[i], now)],
                    stats |-> [total |-> Len(qs), drafts |-> n("drafts"),
                               scheduled |-> n("scheduled"), active |-> n("active"),
                               closed |-> n("closed")]]
        /\ UNCHANGED <<now, quiz, results, notifications, emails, requests, outage>>

getTeacherActivities ==
    /\ resp' = [op |-> "getTeacherActivities",
                data |-> [i \in 1..Len(teacherQuizzes) |->
                             [status |-> teacherActivitiesStatus(teacherQuizzes[i], now)]]]
    /\ UNCHANGED <<now, quiz, results, notifications, emails, requests, outage>>

getRecentQuizzes ==
    /\ resp' = [op |-> "getRecentQuizzes",
                data |-> [i \in 1..Len(teacherQuizzes) |->
                             [status |-> recentQuizzesStatus(teacherQuizzes[i], now)]]]
    /\ UNCHANGED <<now, quiz, results, notifications, emails, requests, outage>>

getTeacherStats ==
    /\ resp' = [op |-> "getTeacherStats", stats |-> teacherStatsCounts(teacherQuizzes, now)]
    /\ UNCHANGED <<now, quiz, results, notifications, emails, requests, outage>>

\* TeacherQuiz.find(filterQuery) of getSharedQuizzes, for the student st
sharedQuizzesFound(st) ==
    IF /\ quiz.isScheduled
       /\ ~quiz.isDeleted
       /\ (st.year # "" /\ yearMapping(st.year) # 0 => quiz.academicYear = yearMapping(st.year))
       /\ (st.semester # "" => quiz.semester = st.semester)
    THEN <<quiz>> ELSE <<>>

getSharedQuizzes(userId) ==
    LET qs == sharedQuizzesFound(Students[userId])
        attemptsUsed == countAttempts(results, userId)
        entry(q) == [timeStatus |-> sharedQuizzesTimeStatus(q, now),
                     isCurrentlyActive |-> sharedQuizzesTimeStatus(q, now) = "active",
                     maxAttempts |-> q.maxAttempts,
                     attemptsUsed |-> attemptsUsed,
                     canAttempt |-> attemptsUsed < q.maxAttempts]
    IN  /\ resp' = [op |-> "getSharedQuizzes", userId |-> userId,
                    quizzes |-> [i \in 1..Len(qs) |-> entry(qs[i])]]
        /\ UNCHANGED <<now, quiz, results, notifications, emails, requests, outage>>

\* the document methods quiz.isCurrentlyActive() and quiz.getTimeStatus()
quizTimeStatus ==
    /\ resp' = [op |-> "quizTimeStatus",
                isCurrentlyActive |-> isCurrentlyActive(quiz, now),
                timeStatus |-> getTimeStatus(quiz, now)]
    /\ UNCHANGED <<now, quiz, results, notifications, emails, requests, outage>>

\* the client's filter over the quizzes getTeacherQuizzes returned
FilterTabs == {"draft", "scheduled", "active", "recentActivity"}

filteredQuizzes(filterStatus) ==
    /\ resp' = [op |-> "filteredQuizzes", filterStatus |-> filterStatus,
                shown |-> [i \in 1..Len(teacherQuizzes) |->
                              filteredQuizzesShown(teacherQuizzes[i], now, filterStatus)]]
    /\ UNCHANGED <<now, quiz, results, notifications, emails, requests, outage>>

\* time passes: the clock moves to a later instant of S, the response is delivered
advanceClock(S) ==
    /\ \E t \in S : Before(now, t) /\ now' = t
    /\ resp' = NoResp
    /\ UNCHANGED <<quiz, results, notifications, emails, requests, outage>>

(***************************************************************************)
(* StatusSpec: every quiz document the scheduling block can hold, read by  *)
(* every status path at every instant around its window's boundaries.      *)
(***************************************************************************)
\* a Date as stored from a date-only string: that day, at the zone's offset
storedDate(day) == <<day, 5 * MsPerHour + 30 * MsPerMinute>>

TimesOfDay == {<<9, 0>>, <<9, 30>>, <<22, 0>>}
Statuses == {"draft", "scheduled", "active", "closed"}

StatusQuizzes ==
    {preSave([createdQuiz EXCEPT !.isScheduled = sch, !.scheduleDate = sd, !.startTime = st,
                                 !.endTime = et, !.dueDate = dd, !.status = status,
                                 !.semester = "1st semester", !.academicYear = 1]) :
        sch \in BOOLEAN, sd \in {Null, storedDate(1)}, st \in TimesOfDay \cup {Null},
        et \in TimesOfDay \cup {Null},
        dd \in {Null, storedDate(0), storedDate(1), storedDate(2)},
        status \in Statuses}

StatusInstants ==
    {<<d, ms>> : d \in 0..MaxDay,
                 ms \in UNION {{setHours(<<0, 0>>, t[1], t[2], 0, 0)[2] - 1,
                                setHours(<<0, 0>>, t[1], t[2], 0, 0)[2]} : t \in TimesOfDay}
                        \cup {MsPerDay - 1}}

StatusInit ==
    /\ now \in StatusInstants
    /\ quiz \in StatusQuizzes
    /\ results = <<>>
    /\ notifications = <<>>
    /\ emails = <<>>
    /\ resp = NoResp
    /\ requests = <<>>
    /\ outage = {}

StatusNext ==
    \/ getTeacherQuizzes
    \/ getQuizStats
    \/ getTeacherActivities
    \/ getRecentQuizzes
    \/ getTeacherStats
    \/ \E u \in StudentIds : getSharedQuizzes(u)
    \/ quizTimeStatus
    \/ \E tab \in FilterTabs : filteredQuizzes(tab)

StatusSpec == StatusInit /\ [][StatusNext]_vars


(***************************************************************************)
(* The store: quiz-assignment dispatch and quiz submission.                *)
(***************************************************************************)
QuizId == "q1"

\* Student.find(filter): the students in insertion order
StudentOrder == <<"s1", "s2", "s3", "s4">>

\* the delivery collaborator sendEmail is invoked for `to` with a mail of `kind`;
\* it rejects for the recipients of the outage
mail(to, kind) == [to |-> to, kind |-> kind, delivered |-> to \notin outage]

\* sendEmailNotification(userId, ...): the user is looked up; the early return
\* for a user who disabled email is commented out, so sendEmail is always invoked;
\* a rejection of sendEmail is caught and answered with false, never rethrown
sendEmailNotification(userId, kind) ==
    IF userId \in StudentIds \/ userId = TeacherId THEN <<mail(userId, kind)>> ELSE <<>>

\* a variant of the filter below that looks at the semester alone
matchesFilterBySemester(st, semester, academicYear) ==
    semester # "" => st.semester = semester

\* studentFilter of scheduleQuiz / createQuizNotification applied to a student
matchesFilter(st, semester, academicYear) ==
    /\ (semester # "" => st.semester = semester)
    /\ (academicYear # 0 /\ yearStrings(academicYear) # "" => st.year = yearStrings(academicYear))

\* Notification.countDocuments({ quizId, type: 'quiz_assigned' })
countAssigned(ns) ==
    Cardinality({i \in 1..Len(ns) : ns[i].quizId = QuizId /\ ns[i].type = "quiz_assigned"})

\* a Notification document; createdAt is set on creation
notification(id, recipientId, role, type, status, score, submissionId, t) ==
    [id |-> id, recipientId |-> recipientId, recipientRole |-> role, type |-> type,
     quizId |-> QuizId, status |-> status, score |-> score, isRead |-> FALSE,
     submissionId |-> submissionId, createdAt |-> t]

\* a variant of the preference below that is on for everyone
emailNotificationsEnabledAlways(st) == TRUE

\* student.notificationSettings?.emailNotifications ?? true
emailNotificationsEnabled(st) == st.emailNotifications # "off"

\* a variant of the dispatch below that does not stop when no student matches
createQuizNotificationUnchecked(ns, semester, academicYear, t) ==
    LET existing == countAssigned(ns)
        matches(id) == matchesFilter(Students[id], semester, academicYear)
        students == SelectSeq(StudentOrder, matches)
    IN  IF existing > 0
        THEN [created |-> <<>>, mails |-> <<>>,
              result |-> [success |-> TRUE, count |-> existing, skipped |-> TRUE,
                          error |-> ""]]
        ELSE [created |-> [i \in 1..Len(students) |->
                              notification(Len(ns) + i, students[i], "student", "quiz_assigned",
                                           "pending", "", 0, t)],
              mails |-> <<>>,
              result |-> [success |-> TRUE, count |-> Len(students), skipped |-> FALSE,
                          error |-> ""]]

\* a variant of the loop below that ends at the first mail sendEmail rejects
RECURSIVE assignmentMailsUntilRejected(_)
assignmentMailsUntilRejected(students) ==
    IF students = <<>> THEN <<>>
    ELSE LET id == Head(students)
         IN  IF emailNotificationsEnabled(Students[id]) /\ Students[id].hasEmail
             THEN IF mail(id, "assignment").delivered
                  THEN <<mail(id, "assignment")>> \o assignmentMailsUntilRejected(Tail(students))
                  ELSE <<mail(id, "assignment")>>
             ELSE assignmentMailsUntilRejected(Tail(students))

\* the mail loop of createQuizNotification over the notified students: each
\* student with the preference on and an address is mailed inside a try/catch
\* of its own, so the loop goes on after a rejected mail
assignmentMails(students) ==
    LET wantsMail(id) == emailNotificationsEnabled(Students[id]) /\ Students[id].hasEmail
        mailed == SelectSeq(students, wantsMail)
    IN  [i \in 1..Len(mailed) |-> mail(mailed[i], "assignment")]

\* createQuizNotification(quizId, quizData, teacherName) on the notifications ns at
\* time t: the notifications inserted, the mails sent and the value returned
createQuizNotification(ns, semester, academicYear, t) ==
    LET existing == countAssigned(ns)
        matches(id) == matchesFilter(Students[id], semester, academicYear)
        students == SelectSeq(StudentOrder, matches)
    IN  IF existing > 0
        THEN [created |-> <<>>, mails |-> <<>>,
              result |-> [success |-> TRUE, count |-> existing, skipped |-> TRUE,
                          error |-> ""]]
        ELSE IF Len(students) = 0
        THEN [created |-> <<>>, mails |-> <<>>,
              result |-> [success |-> FALSE, count |-> 0, skipped |-> FALSE,
                          error |-> "No students found matching the criteria"]]
        ELSE [created |-> [i \in 1..Len(students) |->
                              notification(Len(ns) + i, students[i], "student", "quiz_assigned",
                                           "pending", "", 0, t)],
              mails |-> assignmentMails(students),
              result |-> [success |-> TRUE, count |-> Len(students), skipped |-> FALSE,
                          error |-> ""]]

\* successful scheduleQuiz calls so far: each leaves one notification for the teacher
scheduleCalls ==
    Cardinality({i \in 1..Len(notifications) :
                    notifications[i].recipientRole = "teacher"
                        /\ notifications[i].type = "quiz_assigned"})

\* the effect of scheduleQuiz with the request body `body` on the quiz q, the
\* notifications ns and the mails es at time t, and its response
scheduleQuizEffect(q, ns, es, body, t) ==
    LET same == [quiz |-> q, notifications |-> ns, emails |-> es]
    IN
    IF ~Has(body.scheduleDate) \/ ~Has(body.startTime) \/ ~Has(body.endTime)
    THEN same @@ [resp |-> [op |-> "scheduleQuiz", code |-> 400]]
    ELSE IF body.semester # "" /\ body.semester \notin {"1st semester", "2nd semester"}
    THEN same @@ [resp |-> [op |-> "scheduleQuiz", code |-> 400]]
    ELSE IF q.isDeleted
    THEN same @@ [resp |-> [op |-> "scheduleQuiz", code |-> 404]]
    ELSE LET d == createQuizNotification(ns, body.semester, body.academicYear, t)
             afterStudents == ns \o d.created
             teacherNote == notification(Len(afterStudents) + 1, q.teacherId, "teacher",
                                         "quiz_assigned", "completed", "", 0, t)
         IN  [quiz |-> preSave([q EXCEPT
                           !.isScheduled = TRUE,
                           !.scheduleDate = body.scheduleDate,
                           !.startTime = body.startTime,
                           !.endTime = body.endTime,
                           !.dueDate = IF Has(body.dueDate) THEN body.dueDate ELSE @,
                           !.semester = IF body.semester # "" THEN body.semester ELSE @,
                           !.academicYear =
                               IF body.academicYear # 0 THEN body.academicYear ELSE @,
                           !.maxAttempts =
                               IF body.maxAttempts # 0 THEN body.maxAttempts ELSE @,
                           !.status = "scheduled"]),
              notifications |-> Append(afterStudents, teacherNote),
              emails |-> es \o d.mails
                           \o (IF Teacher.hasEmail
                               THEN sendEmailNotification(q.teacherId, "shareConfirmation")
                               ELSE <<>>),
              resp |-> [op |-> "scheduleQuiz", code |-> 200,
                        notificationResult |-> d.result,
                        notificationsSent |-> d.result.count]]

scheduleQuiz(body) ==
    LET e == scheduleQuizEffect(quiz, notifications, emails, body, now)
    IN  /\ scheduleCalls < MaxSchedules
        /\ quiz' = e.quiz
        /\ notifications' = e.notifications
        /\ emails' = e.emails
        /\ resp' = e.resp
        /\ UNCHANGED <<now, results, requests, outage>>

\* a variant of the lookup below whose window leaves out a result recorded
\* exactly 5 seconds ago
recentSubmissionsWithinWindow(rs, userId, t) ==
    {i \in 1..Len(rs) : rs[i].userId = userId /\ Before(minusMs(t, 5000), rs[i].submittedAt)}

\* QuizResult.findOne({ userId, quizId, submittedAt: { $gte: now - 5000 } }): the
\* positions of the matching results
recentSubmissions(rs, userId, t) ==
    {i \in 1..Len(rs) : rs[i].userId = userId /\ AtOrBefore(minusMs(t, 5000), rs[i].submittedAt)}

\* Math.round((part / whole) * 100), whole > 0
percent(part, whole) == (200 * part + whole) \div (2 * whole)

\* grading: answers is the submitted array of option indices, as strings
\* ("null" for a JSON null); an index past its end reads undefined
graded(q, answers) ==
    [i \in 1..Len(q.questions) |->
        LET userAnswer == IF i <= Len(answers) THEN answers[i] ELSE "undefined"
            correctAnswer == IF q.questions[i] # -1 THEN ToString(q.questions[i]) ELSE "null"
        IN  [userAnswer |-> IF userAnswer # "undefined" THEN userAnswer ELSE "-1",
             correctAnswer |-> IF correctAnswer # "null" THEN correctAnswer ELSE "-1",
             isCorrect |-> userAnswer = correctAnswer]]

\* the majority-completion check after completedCount results exist
majorityFires(completedCount, totalStudents) ==
    /\ percent(completedCount, totalStudents) >= 50
    /\ percent(completedCount, totalStudents) - percent(completedCount - 1, totalStudents) > 0

\* a variant of the record below that is not flagged as abandoned
abandonedResultUnflagged(id, userId, totalQuestions, t) ==
    [id |-> id, userId |-> userId, score |-> 0, correctAnswers |-> 0,
     totalQuestions |-> totalQuestions, answers |-> <<>>, submittedAt |-> t,
     abandoned |-> FALSE]

\* the QuizResult created for an abandoned attempt
abandonedResult(id, userId, totalQuestions, t) ==
    [id |-> id, userId |-> userId, score |-> 0, correctAnswers |-> 0,
     totalQuestions |-> totalQuestions, answers |-> <<>>, submittedAt |-> t,
     abandoned |-> TRUE]

\* the start of every submitQuizAnswers response; userId and abandonedQuiz are
\* the request's
submitBase(userId, abandonedQuiz) ==
    [op |-> "submitQuizAnswers", userId |-> userId, abandonedQuiz |-> abandonedQuiz]

\* submitQuizAnswers after its two lookups: existingAttempts is the count the
\* request read; the abandoned branch, the active-window check, grading, the
\* QuizResult, the notifications and the mails
recordSubmission(userId, answers, abandonedQuiz, existingAttempts) ==
    LET base == submitBase(userId, abandonedQuiz)
    IN
    IF abandonedQuiz
    THEN LET r == abandonedResult(Len(results) + 1, userId, Len(quiz.questions), now)
         IN  /\ Len(results) < MaxResults
             /\ results' = Append(results, r)
             /\ notifications' =
                    Append(notifications,
                           notification(Len(notifications) + 1, userId, "student",
                                        "quiz_abandoned", "abandoned", "0/100", r.id, now))
             /\ resp' = base @@ [code |-> 200, message |-> "Quiz attempt recorded",
                                 score |-> 0, correctAnswers |-> 0, answers |-> <<>>,
                                 submittedAt |-> now, attemptNumber |-> existingAttempts + 1,
                                 maxAttempts |-> quiz.maxAttempts, abandoned |-> TRUE]
             /\ UNCHANGED <<now, quiz, emails, outage>>
    ELSE IF ~isCurrentlyActive(quiz, now)
    THEN /\ resp' = base @@ [code |-> 403, timeStatus |-> getTimeStatus(quiz, now)]
         /\ UNCHANGED <<now, quiz, results, notifications, emails, outage>>
    ELSE LET g == graded(quiz, answers)
             correctAnswers == Cardinality({i \in DOMAIN g : g[i].isCorrect})
             score == percent(correctAnswers, Len(quiz.questions))
             r == [id |-> Len(results) + 1, userId |-> userId, score |-> score,
                   correctAnswers |-> correctAnswers, totalQuestions |-> Len(quiz.questions),
                   answers |-> g, submittedAt |-> now, abandoned |-> FALSE]
             existingNotification ==
                 \E i \in 1..Len(notifications) :
                     /\ notifications[i].recipientId = userId
                     /\ notifications[i].quizId = QuizId
                     /\ notifications[i].type = "quiz_graded"
                     /\ AtOrBefore(minusMs(now, 5000), notifications[i].createdAt)
             afterGraded ==
                 IF existingNotification THEN notifications
                 ELSE Append(notifications,
                             notification(Len(notifications) + 1, userId, "student",
                                          "quiz_graded", "graded",
                                          ToString(score) \o "/100", r.id, now))
             submissionMails ==
                 IF Students[userId].hasEmail
                 THEN sendEmailNotification(userId, "submission")
                          \o sendEmailNotification(userId, "submission")
                 ELSE <<>>
             majority == /\ majorityFires(Len(results) + 1, Cardinality(StudentIds))
                         /\ Teacher.hasEmail
         IN  /\ Len(results) < MaxResults
             /\ results' = Append(results, r)
             /\ notifications' =
                    IF majority
                    THEN Append(afterGraded,
                                notification(Len(afterGraded) + 1, quiz.teacherId, "teacher",
                                             "quiz_majority_complete", "completed", "", 0, now))
                    ELSE afterGraded
             /\ emails' = emails \o submissionMails
                             \o (IF majority
                                 THEN sendEmailNotification(quiz.teacherId, "majorityCompletion")
                                 ELSE <<>>)
             /\ resp' = base @@ [code |-> 200, message |-> "Quiz submitted successfully",
                                 score |-> score, correctAnswers |-> correctAnswers,
                                 answers |-> g, submittedAt |-> now,
                                 attemptNumber |-> existingAttempts + 1,
                                 maxAttempts |-> quiz.maxAttempts]
             /\ UNCHANGED <<now, quiz, outage>>

\* submitQuizAnswers up to its second lookup: the duplicate-click response, the
\* attempts-exhausted response, or "proceed" with the attempts counted
submitLookups(userId, abandonedQuiz) ==
    LET recent == recentSubmissions(results, userId, now)
        existingAttempts == countAttempts(results, userId)
        base == submitBase(userId, abandonedQuiz)
    IN
    IF recent # {}
    THEN LET r == results[CHOOSE i \in recent : \A j \in recent : i <= j]
         IN  [proceed |-> FALSE, existingAttempts |-> existingAttempts,
              resp |-> base @@ [code |-> 200, message |-> "Quiz already submitted",
                                score |-> r.score, correctAnswers |-> r.correctAnswers,
                                answers |-> r.answers, submittedAt |-> r.submittedAt]]
    ELSE IF existingAttempts >= quiz.maxAttempts
    THEN [proceed |-> FALSE, existingAttempts |-> existingAttempts,
          resp |-> base @@ [code |-> 403, attemptsUsed |-> existingAttempts,
                            maxAttempts |-> quiz.maxAttempts]]
    ELSE [proceed |-> TRUE, existingAttempts |-> existingAttempts, resp |-> base]

\* one request served without any other request in between
submitQuizAnswers(userId, answers, abandonedQuiz) ==
    LET l == submitLookups(userId, abandonedQuiz)
    IN  /\ UNCHANGED requests
        /\ IF l.proceed
           THEN recordSubmission(userId, answers, abandonedQuiz, l.existingAttempts)
           ELSE /\ resp' = l.resp
                /\ UNCHANGED <<now, quiz, results, notifications, emails, outage>>

\* a request runs its two lookups and waits for its write
beginSubmit(userId, answers, abandonedQuiz) ==
    LET l == submitLookups(userId, abandonedQuiz)
    IN  /\ Len(requests) < MaxRequests
        /\ IF l.proceed
           THEN /\ requests' = Append(requests,
                                      [userId |-> userId, answers |-> answers,
                                       abandonedQuiz |-> abandonedQuiz,
                                       existingAttempts |-> l.existingAttempts])
                /\ resp' = NoResp
           ELSE /\ resp' = l.resp
                /\ UNCHANGED requests
        /\ UNCHANGED <<now, quiz, results, notifications, emails, outage>>

\* the i-th waiting request resumes and runs to its response
finishSubmit(i) ==
    /\ i \in 1..Len(requests)
    /\ requests' = SubSeq(requests, 1, i - 1) \o SubSeq(requests, i + 1, Len(requests))
    /\ recordSubmission(requests[i].userId, requests[i].answers, requests[i].abandonedQuiz,
                        requests[i].existingAttempts)

(***************************************************************************)
(* The requests of the two store specifications.                           *)
(***************************************************************************)
\* the window every scheduleQuiz call asks for: day 0, 00:01 to 00:02
SpecStart == <<0, 1>>
SpecEnd == <<0, 2>>

\* a scheduleQuiz request body
scheduleBody(endTime, dueDate, semester, academicYear, maxAttempts) ==
    [scheduleDate |-> storedDate(0), startTime |-> SpecStart, endTime |-> endTime,
     dueDate |-> dueDate, semester |-> semester, academicYear |-> academicYear,
     maxAttempts |-> maxAttempts]

\* instants before the start, across the first seconds of the window, and its end
ClockStepMs == 5 * 500
FirstInstant == <<0, MsPerMinute - ClockStepMs>>
SpecInstants ==
    {plusMs(FirstInstant, k * ClockStepMs) : k \in 0..MaxTicks} \cup {<<0, 2 * MsPerMinute>>}

\* (semester, academicYear) filters: everyone, one semester, one year, s1
\* alone, nobody, a year outside yearStrings, a semester outside the enum
ScheduleFilters ==
    {<<"", 0>>, <<"1st semester", 0>>, <<"", 1>>, <<"1st semester", 1>>,
     <<"2nd semester", 3>>, <<"", 5>>, <<"3rd semester", 0>>}

\* the answer arrays students submit: two right and one on the question without
\* a correct option, one right and the rest missing, one right and a JSON null
AnswerChoices == {<<"0", "1", "0">>, <<"0">>, <<"1", "1", "null">>}

\* the students who submit
Submitters == {"s1", "s2"}

\* the recipients sendEmail rejects for: nobody, the first student mailed, every
\* student mailed
Outages == {{}, {"s1"}, {"s1", "s4"}}

(***************************************************************************)
(* Spec: the quiz has been scheduled for everyone; students submit and     *)
(* abandon attempts while time passes.                                     *)
(***************************************************************************)
Init ==
    /\ outage = {}
    /\ \E m \in {1, 2, 3} :
        LET e == scheduleQuizEffect(createdQuiz, <<>>, <<>>,
                                    scheduleBody(SpecEnd, Null, "", 0, m), FirstInstant)
        IN  /\ now = FirstInstant
            /\ quiz = e.quiz
            /\ results = <<>>
            /\ notifications = e.notifications
            /\ emails = e.emails
            /\ resp = NoResp
            /\ requests = <<>>

Tick == advanceClock(SpecInstants)

Next ==
    \/ \E u \in Submitters, a \in AnswerChoices : submitQuizAnswers(u, a, FALSE)
    \/ \E u \in Submitters : submitQuizAnswers(u, <<>>, TRUE)
    \/ Tick

Spec == Init /\ [][Next]_vars

(***************************************************************************)
(* ConcurrentSpec: the same quiz, with requests of submitQuizAnswers       *)
(* overlapping: a request's lookups and its write are separate steps, as   *)
(* every await of the handler lets another request run.                    *)
(***************************************************************************)
ConcurrentInit ==
    /\ outage = {}
    /\ \E m \in {1, 2} :
        LET e == scheduleQuizEffect(createdQuiz, <<>>, <<>>,
                                    scheduleBody(SpecEnd, Null, "", 0, m), FirstInstant)
        IN  /\ now = <<0, MsPerMinute>>
            /\ quiz = e.quiz
            /\ results = <<>>
            /\ notifications = e.notifications
            /\ emails = e.emails
            /\ resp = NoResp
            /\ requests = <<>>

\* the student whose requests overlap and the answer arrays sent
ConcurrentStudent == "s1"
ConcurrentAnswers == {<<"0", "1", "0">>, <<"0">>}

ConcurrentNext ==
    \/ \E a \in ConcurrentAnswers : beginSubmit(ConcurrentStudent, a, FALSE)
    \/ beginSubmit(ConcurrentStudent, <<>>, TRUE)
    \/ \E i \in 1..MaxRequests : finishSubmit(i)
    \/ Tick

ConcurrentSpec == ConcurrentInit /\ [][ConcurrentNext]_vars

(***************************************************************************)
(* DispatchSpec: a teacher schedules a draft quiz, again and again.        *)
(***************************************************************************)
DispatchInit ==
    /\ now = FirstInstant
    /\ quiz = createdQuiz
    /\ results = <<>>
    /\ notifications = <<>>
    /\ emails = <<>>
    /\ resp = NoResp
    /\ requests = <<>>
    /\ outage \in Outages

DispatchNext ==
    \/ \E f \in ScheduleFilters, m \in {0, 2}, et \in {Null, SpecEnd}, dd \in {Null, storedDate(1)} :
           scheduleQuiz(scheduleBody(et, dd, f[1], f[2], m))
    \/ Tick

DispatchSpec == DispatchInit /\ [][DispatchNext]_vars

(***************************************************************************)
(* Notification feed: deduplicateNotifications and getNotifications.       *)
(***************************************************************************)
\* the first branch of the loop: a quiz assignment that is not graded
isQuizAssignment(n) == n.type = "quiz_assigned" /\ n.quizId # "" /\ n.status # "graded"

\* the second branch: a graded notification of either type
isQuizSubmission(n) ==
    /\ n.type = "quiz_graded" \/ (n.type = "quiz_assigned" /\ n.status = "graded")
    /\ n.quizId # ""

\* a variant of the key below without the score
submissionKeyByQuiz(n) == <<n.quizId>>

\* `${notification.quizId.toString()}_${notification.score || 'no-score'}`
submissionKey(n) == <<n.quizId, IF n.score # "" THEN n.score ELSE "no-score">>

\* the loop's state before the first notification
dedupStart ==
    [uniqueNotifications |-> <<>>, duplicateIds |-> <<>>,
     seenQuizAssignments |-> {}, seenQuizSubmissions |-> {}]

\* a variant of the loop body below that forgets a key when it drops a duplicate
dedupStepForgetful(acc, n) ==
    IF isQuizAssignment(n)
    THEN IF n.quizId \notin acc.seenQuizAssignments
         THEN [acc EXCEPT !.seenQuizAssignments = @ \cup {n.quizId},
                          !.uniqueNotifications = Append(@, n)]
         ELSE [acc EXCEPT !.seenQuizAssignments = @ \ {n.quizId},
                          !.duplicateIds = IF ~n.isRead THEN Append(@, n.id) ELSE @]
    ELSE IF isQuizSubmission(n)
    THEN IF submissionKey(n) \notin acc.seenQuizSubmissions
         THEN [acc EXCEPT !.seenQuizSubmissions = @ \cup {submissionKey(n)},
                          !.uniqueNotifications = Append(@, n)]
         ELSE [acc EXCEPT !.seenQuizSubmissions = @ \ {submissionKey(n)},
                          !.duplicateIds = IF ~n.isRead THEN Append(@, n.id) ELSE @]
    ELSE [acc EXCEPT !.uniqueNotifications = Append(@, n)]

\* one pass of the for loop of deduplicateNotifications
dedupStep(acc, n) ==
    IF isQuizAssignment(n)
    THEN IF n.quizId \notin acc.seenQuizAssignments
         THEN [acc EXCEPT !.seenQuizAssignments = @ \cup {n.quizId},
                          !.uniqueNotifications = Append(@, n)]
         ELSE [acc EXCEPT !.duplicateIds = IF ~n.isRead THEN Append(@, n.id) ELSE @]
    ELSE IF isQuizSubmission(n)
    THEN IF submissionKey(n) \notin acc.seenQuizSubmissions
         THEN [acc EXCEPT !.seenQuizSubmissions = @ \cup {submissionKey(n)},
                          !.uniqueNotifications = Append(@, n)]
         ELSE [acc EXCEPT !.duplicateIds = IF ~n.isRead THEN Append(@, n.id) ELSE @]
    ELSE [acc EXCEPT !.uniqueNotifications = Append(@, n)]

\* the loop over the first k notifications of list
RECURSIVE dedupLoop(_, _)
dedupLoop(list, k) ==
    IF k = 0 THEN dedupStart ELSE dedupStep(dedupLoop(list, k - 1), list[k])

deduplicateNotifications(list) ==
    LET acc == dedupLoop(list, Len(list))
    IN  [uniqueNotifications |-> acc.uniqueNotifications, duplicateIds |-> acc.duplicateIds]

\* user?.notificationSettings?.inAppNotifications ?? true
inAppNotificationsEnabled(userId) ==
    IF userId \in StudentIds THEN Students[userId].inAppNotifications # "off" ELSE TRUE

\* .limit(50)
FetchLimit == 50

RECURSIVE reverse(_)
reverse(list) == IF list = <<>> THEN <<>> ELSE Append(reverse(Tail(list)), Head(list))

\* a variant of the query below that is not restricted to the recipient
fetchedFromAll(ns, userId, filter) ==
    LET wanted(n) == filter = "unread" => ~n.isRead
        newestFirst == reverse(SelectSeq(ns, wanted))
    IN  SubSeq(newestFirst, 1, IF Len(newestFirst) < FetchLimit THEN Len(newestFirst)
                               ELSE FetchLimit)

\* Notification.find(query).sort({ createdAt: -1 }).limit(50); the collection ns
\* is in insertion order, which is createdAt order
fetched(ns, userId, filter) ==
    LET wanted(n) == n.recipientId = userId /\ (filter = "unread" => ~n.isRead)
        newestFirst == reverse(SelectSeq(ns, wanted))
    IN  SubSeq(newestFirst, 1, IF Len(newestFirst) < FetchLimit THEN Len(newestFirst)
                               ELSE FetchLimit)

getNotifications(userId, filter) ==
    IF ~inAppNotificationsEnabled(userId)
    THEN /\ resp' = [op |-> "getNotifications", userId |-> userId, filter |-> filter,
                     notifications |-> <<>>, unreadCount |-> 0]
         /\ UNCHANGED <<now, quiz, results, notifications, emails, requests, outage>>
    ELSE LET d == deduplicateNotifications(fetched(notifications, userId, filter))
             duplicateIds == {d.duplicateIds[i] : i \in 1..Len(d.duplicateIds)}
             unread(n) == ~n.isRead
         IN  /\ notifications' =
                    [i \in 1..Len(notifications) |->
                        IF notifications[i].id \in duplicateIds
                        THEN [notifications[i] EXCEPT !.isRead = TRUE]
                        ELSE notifications[i]]
             /\ resp' = [op |-> "getNotifications", userId |-> userId, filter |-> filter,
                         notifications |-> d.uniqueNotifications,
                         unreadCount |-> Len(SelectSeq(d.uniqueNotifications, unread))]
             /\ UNCHANGED <<now, quiz, results, emails, requests, outage>>

\* Notification.find({ recipientId, isRead: false }).lean() of getUnreadCount: no
\* sort and no limit, so the documents come in insertion order
fetchedUnread(ns, userId) ==
    LET wanted(n) == n.recipientId = userId /\ ~n.isRead
    IN  SelectSeq(ns, wanted)

getUnreadCount(userId) ==
    IF ~inAppNotificationsEnabled(userId)
    THEN /\ resp' = [op |-> "getUnreadCount", userId |-> userId, count |-> 0]
         /\ UNCHANGED <<now, quiz, results, notifications, emails, requests, outage>>
    ELSE LET d == deduplicateNotifications(fetchedUnread(notifications, userId))
             duplicateIds == {d.duplicateIds[i] : i \in 1..Len(d.duplicateIds)}
         IN  /\ notifications' =
                    [i \in 1..Len(notifications) |->
                        IF notifications[i].id \in duplicateIds
                        THEN [notifications[i] EXCEPT !.isRead = TRUE]
                        ELSE notifications[i]]
             /\ resp' = [op |-> "getUnreadCount", userId |-> userId,
                         count |-> Len(d.uniqueNotifications)]
             /\ UNCHANGED <<now, quiz, results, emails, requests, outage>>

\* deduplicateNotifications applied to a list
deduplicate(list, pass) ==
    LET d == deduplicateNotifications(list)
    IN  /\ resp' = [op |-> "deduplicateNotifications", pass |-> pass, input |-> list,
                    uniqueNotifications |-> d.uniqueNotifications,
                    duplicateIds |-> d.duplicateIds]
        /\ UNCHANGED <<now, quiz, results, notifications, emails, requests, outage>>

(***************************************************************************)
(* NotificationSpec: a Notification collection of up to MaxNotes records;  *)
(* the feed is read, and deduplicateNotifications runs on the collection   *)
(* and on its own output.                                                  *)
(***************************************************************************)
\* what a stored notification can look like: recipient, type, quizId, status,
\* score, isRead
NotificationShapes ==
    {<<"s1", "quiz_assigned", "q1", "pending", "", FALSE>>,
     <<"s1", "quiz_assigned", "q1", "pending", "", TRUE>>,
     <<"s1", "quiz_assigned", "q1", "graded", "50/100", FALSE>>,
     <<"s1", "quiz_graded", "q1", "graded", "50/100", FALSE>>,
     <<"s1", "quiz_graded", "q1", "graded", "50/100", TRUE>>,
     <<"s1", "quiz_graded", "q1", "graded", "100/100", FALSE>>,
     <<"s1", "quiz_graded", "q1", "graded", "", FALSE>>,
     <<"s1", "quiz_assigned", "", "pending", "", FALSE>>,
     <<"s1", "quiz_abandoned", "q1", "abandoned", "0/100", FALSE>>,
     <<"s1", "quiz_assigned", "q2", "pending", "", FALSE>>,
     <<"s2", "quiz_assigned", "q1", "pending", "", FALSE>>,
     <<"s2", "quiz_graded", "q1", "graded", "50/100", FALSE>>}

\* the collection whose i-th inserted record has the i-th shape
stored(shapes) ==
    [i \in 1..Len(shapes) |->
        [notification(i, shapes[i][1], "student", shapes[i][2], shapes[i][4], shapes[i][5],
                      0, <<0, i>>)
            EXCEPT !.quizId = shapes[i][3], !.isRead = shapes[i][6]]]

NotificationInit ==
    /\ now = <<0, MsPerMinute>>
    /\ quiz = createdQuiz
    /\ results = <<>>
    /\ \E k \in 0..MaxNotes : \E shapes \in [1..k -> NotificationShapes] :
           notifications = stored(shapes)
    /\ emails = <<>>
    /\ resp = NoResp
    /\ requests = <<>>
    /\ outage = {}

NotificationNext ==
    \/ \E u \in {"s1", "s2", "s3"}, f \in {"all", "unread"} : getNotifications(u, f)
    \/ \E u \in {"s1", "s2", "s3"} : getUnreadCount(u)
    \/ deduplicate(notifications, 1)
    \/ /\ resp.op = "deduplicateNotifications"
       /\ deduplicate(resp.uniqueNotifications, 2)

NotificationSpec == NotificationInit /\ [][NotificationNext]_vars

(***************************************************************************)
(* LifecycleSpec: a quiz scheduled for the first-semester, first-year      *)
(* students; one of them reads the feed, submits and reads notifications   *)
(* while time passes, and the teacher deletes the quiz.                    *)
(***************************************************************************)
\* deleteQuiz: the soft delete, then Notification.deleteMany({ quizId })
deleteQuiz ==
    IF quiz.isDeleted
    THEN /\ resp' = [op |-> "deleteQuiz", code |-> 404]
         /\ UNCHANGED <<now, quiz, results, notifications, emails, requests, outage>>
    ELSE LET references(n) == n.quizId = QuizId
             others(n) == ~references(n)
         IN  /\ quiz' = preSave([quiz EXCEPT !.isDeleted = TRUE])
             /\ notifications' = SelectSeq(notifications, others)
             /\ resp' = [op |-> "deleteQuiz", code |-> 200,
                         deletedNotifications |-> Len(SelectSeq(notifications, references))]
             /\ UNCHANGED <<now, results, emails, requests, outage>>

\* the student of the feed and the answer arrays sent: two right, one right
LifecycleStudent == "s1"
LifecycleAnswers == {<<"0", "1", "0">>, <<"0">>}

LifecycleInit ==
    /\ outage = {}
    /\ \E m \in {1, 2}, dd \in {Null, storedDate(0)} :
        LET e == scheduleQuizEffect(createdQuiz, <<>>, <<>>,
                                    scheduleBody(SpecEnd, dd, "1st semester", 1, m),
                                    FirstInstant)
        IN  /\ now = FirstInstant
            /\ quiz = e.quiz
            /\ results = <<>>
            /\ notifications = e.notifications
            /\ emails = e.emails
            /\ resp = NoResp
            /\ requests = <<>>

LifecycleNext ==
    \/ getSharedQuizzes(LifecycleStudent)
    \/ \E a \in LifecycleAnswers : submitQuizAnswers(LifecycleStudent, a, FALSE)
    \/ submitQuizAnswers(LifecycleStudent, <<>>, TRUE)
    \/ getNotifications(LifecycleStudent, "all")
    \/ deleteQuiz
    \/ Tick

LifecycleSpec == LifecycleInit /\ [][LifecycleNext]_vars

(***************************************************************************)
(* CleanupSpec: over weeks, the teacher schedules and reschedules the      *)
(* quiz and edits it, and the clean-up of expired quizzes runs.            *)
(***************************************************************************)
\* updateQuiz: every key of the request body but _id, teacherId and createdAt
\* is copied onto the document, which is then saved
updateQuiz(updateData) ==
    IF quiz.isDeleted
    THEN /\ resp' = [op |-> "updateQuiz", code |-> 404]
         /\ UNCHANGED <<now, quiz, results, notifications, emails, requests, outage>>
    ELSE /\ quiz' = preSave([key \in DOMAIN quiz |->
                                IF key \in DOMAIN updateData /\ key # "teacherId"
                                THEN updateData[key] ELSE quiz[key]])
         /\ resp' = [op |-> "updateQuiz", code |-> 200]
         /\ UNCHANGED <<now, results, notifications, emails, requests, outage>>

\* TeacherQuiz.cleanupExpiredQuizzes: updateMany over the quizzes that are not
\* deleted and whose expiryDate is at or before now (no save hook runs)
cleanupExpiredQuizzes ==
    LET expired == ~quiz.isDeleted /\ Has(quiz.expiryDate) /\ AtOrBefore(quiz.expiryDate, now)
    IN  /\ quiz' = IF expired THEN [quiz EXCEPT !.isDeleted = TRUE, !.status = "closed"]
                   ELSE quiz
        /\ resp' = [op |-> "cleanupExpiredQuizzes", success |-> TRUE,
                    count |-> IF expired THEN 1 ELSE 0,
                    quizIds |-> IF expired THEN <<QuizId>> ELSE <<>>]
        /\ UNCHANGED <<now, results, notifications, emails, requests, outage>>

\* the days a window is scheduled on, the due days, and the instants of the
\* clock: around the window of day 0 and around one month after each window
CleanupScheduleDays == {0, 40}
CleanupDueDays == {45}
CleanupInstants ==
    {FirstInstant} \cup
    {<<d, ms>> : d \in {0, DaysPerMonth, 35, 40, 40 + DaysPerMonth},
                 ms \in {2 * MsPerMinute - 1, 2 * MsPerMinute}}

\* updateQuiz request bodies: a new schedule day, a new end time, a due date
UpdateBodies ==
    {[scheduleDate |-> storedDate(d)] : d \in CleanupScheduleDays}
        \cup {[endTime |-> <<0, 3>>]}
        \cup {[dueDate |-> storedDate(d)] : d \in CleanupDueDays}

CleanupInit ==
    /\ now = FirstInstant
    /\ quiz = createdQuiz
    /\ results = <<>>
    /\ notifications = <<>>
    /\ emails = <<>>
    /\ resp = NoResp
    /\ requests = <<>>
    /\ outage = {}

CleanupNext ==
    \/ \E d \in CleanupScheduleDays, dd \in {Null} \cup {storedDate(x) : x \in CleanupDueDays} :
           scheduleQuiz([scheduleBody(SpecEnd, dd, "1st semester", 1, 0)
                            EXCEPT !.scheduleDate = storedDate(d)])
    \/ \E updateData \in UpdateBodies : updateQuiz(updateData)
    \/ cleanupExpiredQuizzes
    \/ advanceClock(CleanupInstants)

CleanupSpec == CleanupInit /\ [][CleanupNext]_vars

(***************************************************************************)
(* Properties of the status paths (StatusSpec).                            *)
(***************************************************************************)
\* the time of day <<hour, minute>> on the calendar day of the Date d
dayAt(d, hm) == <<d[1], (hm[1] * 60 + hm[2]) * 60 * 1000>>

\* scheduleDate, startTime and endTime are all set
fullySet(q) == Has(q.scheduleDate) /\ Has(q.startTime) /\ Has(q.endTime)

\* upcoming before start, active from start up to end, expired from end on
phase(start, end, t) ==
    IF Before(t, start) THEN "upcoming" ELSE IF Before(t, end) THEN "active" ELSE "expired"

\* the listing's name for a phase
listed(ph) == IF ph = "upcoming" THEN "scheduled" ELSE IF ph = "active" THEN "active" ELSE "closed"

\* a student whose feed holds the quizzes of StatusQuizzes
feedStudent == "s1"

\* C5: for every quiz with isScheduled = true and every now, getQuizStats finds
\* exactly one of isUpcoming, isCurrentlyActive, isExpired true, and counts the
\* quiz in exactly one of the scheduled / active / closed counters.  Stated for
\* the quizzes that hold the scheduleDate and startTime scheduling requires.
C5_ExactlyOnePhase ==
    resp.op = "getQuizStats" =>
        \A i \in DOMAIN resp.flags :
            (teacherQuizzes[i].isScheduled /\ Has(teacherQuizzes[i].scheduleDate)
                /\ Has(teacherQuizzes[i].startTime)) =>
                /\ Cardinality({f \in {"isUpcoming", "isCurrentlyActive", "isExpired"} :
                                   resp.flags[i][f]}) = 1
                /\ resp.stats.scheduled + resp.stats.active + resp.stats.closed = 1

\* C6: for a scheduled quiz without dueDate whose startTime is earlier than its
\* endTime, every status computation yields upcoming before start, active from
\* start up to end, and expired / closed from end on (at now = end: expired).
C6_WindowPhases ==
    (quiz.isScheduled /\ fullySet(quiz) /\ ~Has(quiz.dueDate)
        /\ Before(dayAt(<<0, 0>>, quiz.startTime), dayAt(<<0, 0>>, quiz.endTime))) =>
        LET ph == phase(dayAt(quiz.scheduleDate, quiz.startTime),
                        dayAt(quiz.scheduleDate, quiz.endTime), now)
        IN  /\ resp.op = "getTeacherQuizzes" => resp.quizzes[1].status = listed(ph)
            /\ resp.op = "getQuizStats" =>
                   /\ resp.flags[1].isUpcoming = (ph = "upcoming")
                   /\ resp.flags[1].isCurrentlyActive = (ph = "active")
                   /\ resp.flags[1].isExpired = (ph = "expired")
            /\ resp.op = "quizTimeStatus" => resp.timeStatus = ph
            /\ (resp.op = "getSharedQuizzes" /\ resp.userId = feedStudent) =>
                   /\ resp.quizzes[1].timeStatus = ph
                   /\ resp.quizzes[1].isCurrentlyActive = (ph = "active")

\* C7: for a scheduled quiz with both dueDate and endTime set, the window ends on
\* the calendar day of dueDate at the time of day endTime, in getTeacherQuizzes,
\* getQuizStats, getSharedQuizzes and the client filter.
C7_EndIsDueDateAtEndTime ==
    (quiz.isScheduled /\ fullySet(quiz) /\ Has(quiz.dueDate)) =>
        LET start == dayAt(quiz.scheduleDate, quiz.startTime)
            end == dayAt(quiz.dueDate, quiz.endTime)
            started == AtOrBefore(start, now)
            ended == AtOrBefore(end, now)
        IN  /\ (resp.op = "getTeacherQuizzes" /\ started) =>
                   resp.quizzes[1].status = IF ended THEN "closed" ELSE "active"
            /\ resp.op = "getQuizStats" => resp.flags[1].isExpired = ended
            /\ (resp.op = "getSharedQuizzes" /\ resp.userId = feedStudent) =>
                   (resp.quizzes[1].timeStatus = "expired") = ended
            /\ (resp.op = "filteredQuizzes" /\ resp.filterStatus = "active") =>
                   resp.shown[1] = (started /\ ~ended)

\* the part of C7 about the client filter alone
C7_ClientEndIsDueDateAtEndTime ==
    (quiz.isScheduled /\ fullySet(quiz) /\ Has(quiz.dueDate)
        /\ resp.op = "filteredQuizzes" /\ resp.filterStatus = "active") =>
        resp.shown[1] = (AtOrBefore(dayAt(quiz.scheduleDate, quiz.startTime), now)
                         /\ Before(now, dayAt(quiz.dueDate, quiz.endTime)))

\* the quizzes C8 is about: endTime only, earlier in the day than startTime
spansMidnight(q) ==
    q.isScheduled /\ fullySet(q) /\ ~Has(q.dueDate)
        /\ Before(dayAt(<<0, 0>>, q.endTime), dayAt(<<0, 0>>, q.startTime))

\* C8: for a scheduled quiz with endTime only, earlier in the day than startTime,
\* the window ends on the day after scheduleDate at endTime: the listing reports
\* active, and the model's isCurrentlyActive is true, exactly when
\* start <= now < that end.
C8_MidnightSpanningWindow ==
    spansMidnight(quiz) =>
        LET inWindow == phase(dayAt(quiz.scheduleDate, quiz.startTime),
                              dayAt(nextDay(quiz.scheduleDate), quiz.endTime), now) = "active"
        IN  /\ resp.op = "getTeacherQuizzes" => (resp.quizzes[1].status = "active") = inWindow
            /\ resp.op = "quizTimeStatus" => resp.isCurrentlyActive = inWindow

\* C8 witness: the model method finds a midnight-spanning quiz active on the day
\* after its schedule date
C8_Witness ==
    /\ spansMidnight(quiz)
    /\ resp.op = "quizTimeStatus"
    /\ resp.isCurrentlyActive
    /\ now[1] = quiz.scheduleDate[1] + 1

\* C9: for every quiz with isScheduled = false and every now, getTeacherQuizzes
\* and getTeacherActivities report the stored status unchanged and getQuizStats
\* counts the quiz under its stored status.
C9_UnscheduledKeepsStoredStatus ==
    ~quiz.isScheduled =>
        /\ resp.op = "getTeacherQuizzes" => resp.quizzes[1].status = quiz.status
        /\ resp.op = "getTeacherActivities" => resp.data[1].status = quiz.status
        /\ resp.op = "getQuizStats" =>
               resp.stats = [total |-> 1,
                             drafts |-> IF quiz.status = "draft" THEN 1 ELSE 0,
                             scheduled |-> IF quiz.status = "scheduled" THEN 1 ELSE 0,
                             active |-> IF quiz.status = "active" THEN 1 ELSE 0,
                             closed |-> IF quiz.status = "closed" THEN 1 ELSE 0]

\* C9 witness: an unscheduled draft whose time fields describe a window that
\* has already closed is listed as draft
C9_Witness ==
    /\ ~quiz.isScheduled /\ fullySet(quiz) /\ quiz.status = "draft"
    /\ ~Before(now, dayAt(nextDay(quiz.scheduleDate), quiz.endTime))
    /\ resp.op = "getTeacherQuizzes"
    /\ resp.quizzes[1].status = "draft"

\* C10: for every scheduled quiz and every now, getRecentQuizzes and
\* getTeacherStats report and count the time-derived status, never the stored
\* one.  Stated for quizzes as scheduleQuiz leaves them (stored status
\* "scheduled") with a window inside one day and no dueDate.
C10_ReadPathsUseEffectiveStatus ==
    (quiz.isScheduled /\ fullySet(quiz) /\ ~Has(quiz.dueDate) /\ quiz.status = "scheduled"
        /\ Before(dayAt(<<0, 0>>, quiz.startTime), dayAt(<<0, 0>>, quiz.endTime))) =>
        LET st == listed(phase(dayAt(quiz.scheduleDate, quiz.startTime),
                               dayAt(quiz.scheduleDate, quiz.endTime), now))
        IN  /\ resp.op = "getRecentQuizzes" => resp.data[1].status = st
            /\ resp.op = "getTeacherStats" =>
                   /\ resp.stats.activeQuizzes = (IF st = "active" THEN 1 ELSE 0)
                   /\ resp.stats.closedQuizzes = (IF st = "closed" THEN 1 ELSE 0)

\* C11: a quiz with isScheduled = true, scheduleDate, startTime and dueDate but
\* no endTime gets its status from time, with end = dueDate at 23:59:59.999, in
\* getTeacherQuizzes, getQuizStats and getTeacherActivities.
C11_DueDateOnlyIsScheduled ==
    (quiz.isScheduled /\ Has(quiz.scheduleDate) /\ Has(quiz.startTime)
        /\ ~Has(quiz.endTime) /\ Has(quiz.dueDate)) =>
        LET ph == phase(dayAt(quiz.scheduleDate, quiz.startTime),
                        <<quiz.dueDate[1], MsPerDay - 1>>, now)
        IN  /\ resp.op = "getTeacherQuizzes" => resp.quizzes[1].status = listed(ph)
            /\ resp.op = "getTeacherActivities" => resp.data[1].status = listed(ph)
            /\ resp.op = "getQuizStats" =>
                   /\ resp.flags[1].isUpcoming = (ph = "upcoming")
                   /\ resp.flags[1].isCurrentlyActive = (ph = "active")
                   /\ resp.flags[1].isExpired = (ph = "expired")
                   /\ resp.stats.scheduled + resp.stats.active + resp.stats.closed = 1

\* C23: for every scheduled quiz (isScheduled with scheduleDate, startTime and
\* endTime) that has no dueDate, and every now, getTeacherActivities and
\* getTeacherQuizzes report the same status, endTime equal to startTime included.
C23_ActivitiesAgreeWithQuizzes ==
    (quiz.isScheduled /\ fullySet(quiz) /\ ~Has(quiz.dueDate)) =>
        /\ resp.op = "getTeacherActivities" =>
               resp.data[1].status = teacherQuizzesStatus(quiz, now)
        /\ resp.op = "getTeacherQuizzes" =>
               resp.quizzes[1].status = teacherActivitiesStatus(quiz, now)

(***************************************************************************)
(* Properties of submission (Spec) and of dispatch (DispatchSpec).         *)
(***************************************************************************)
\* the QuizResult records of a student
recordsOf(rs, userId) == {i \in 1..Len(rs) : rs[i].userId = userId}

\* the records of a student made at most 5 seconds before t
recordedInLast5s(rs, userId, t) ==
    {i \in recordsOf(rs, userId) : ~Before(rs[i].submittedAt, minusMs(t, 5000))}

\* the step is a submitQuizAnswers call (every other step resets or replaces resp)
submitStep == resp'.op = "submitQuizAnswers"

\* C1: the number of QuizResult records of a student never exceeds
\* quiz.maxAttempts, and a submitQuizAnswers call (normal or abandoned) made more
\* than 5 seconds after the student's last record, when maxAttempts records
\* exist, answers 403 with attemptsUsed and maxAttempts and creates no
\* QuizResult and no notification.
C1_AttemptsNeverExceedMax ==
    [][submitStep =>
        LET u == resp'.userId
            used == Cardinality(recordsOf(results, u))
        IN  /\ Cardinality(recordsOf(results', u)) <= quiz.maxAttempts
            /\ (recordedInLast5s(results, u, now) = {} /\ used >= quiz.maxAttempts) =>
                   /\ resp'.code = 403
                   /\ "attemptsUsed" \in DOMAIN resp'
                   /\ resp'.attemptsUsed = used
                   /\ resp'.maxAttempts = quiz.maxAttempts
                   /\ results' = results
                   /\ notifications' = notifications]_vars

\* a student with maxAttempts = 2 records, recorded 5 seconds apart or more, is
\* refused a third attempt
C1_Witness ==
    /\ resp.op = "submitQuizAnswers"
    /\ resp.code = 403
    /\ "attemptsUsed" \in DOMAIN resp
    /\ quiz.maxAttempts = 2
    /\ resp.attemptsUsed = 2
    /\ recordedInLast5s(results, resp.userId, now) = {}
    /\ \E i \in recordsOf(results, resp.userId) : results[i].abandoned
    /\ \E i \in recordsOf(results, resp.userId) : ~results[i].abandoned

\* C2: a submitQuizAnswers call of a student who has a QuizResult recorded
\* within the last 5 seconds answers with success, carries that result's score
\* and answers, and leaves results, notifications, mails and the quiz unchanged.
C2_DuplicateReturnsPriorResult ==
    [][submitStep =>
        LET u == resp'.userId
            prior == recordedInLast5s(results, u, now)
        IN  prior # {} =>
                /\ resp'.code = 200
                /\ \E i \in prior :
                       /\ resp'.score = results[i].score
                       /\ resp'.answers = results[i].answers
                /\ UNCHANGED <<quiz, results, notifications, emails>>]_vars

\* a call exactly 5 seconds after a graded attempt got that attempt back
C2_Witness ==
    /\ resp.op = "submitQuizAnswers"
    /\ resp.code = 200
    /\ resp.message = "Quiz already submitted"
    /\ \E i \in recordsOf(results, resp.userId) :
           /\ results[i].submittedAt = minusMs(now, 5000)
           /\ ~results[i].abandoned
           /\ resp.score = results[i].score
           /\ resp.answers = results[i].answers

\* C21: in every interleaving of overlapping submitQuizAnswers requests of one
\* student, the student's QuizResult records for the quiz never number more
\* than quiz.maxAttempts.
C21_OverlappingRequestsKeepBudget ==
    \A u \in Submitters : Cardinality(recordsOf(results, u)) <= quiz.maxAttempts

\* C22: submitQuizAnswers applies its guards in the order duplicate click,
\* attempts exhausted, abandonment, active window.  An abandoned call that passes
\* the first two is recorded whether or not the quiz is active: one QuizResult
\* with score 0 and abandoned = true that counts toward the student's attempts,
\* and one quiz_abandoned notification and no quiz_graded one.  A call that is
\* not abandoned and passes the first two is refused outside the active window.
C22_AbandonedAttemptIsRecorded ==
    [][submitStep =>
        LET u == resp'.userId
            used == Cardinality(recordsOf(results, u))
            added == {i \in DOMAIN notifications' : i > Len(notifications)}
        IN  IF recordedInLast5s(results, u, now) # {}
            THEN /\ resp'.code = 200
                 /\ resp'.message = "Quiz already submitted"
                 /\ results' = results
                 /\ notifications' = notifications
            ELSE IF used >= quiz.maxAttempts
            THEN /\ resp'.code = 403
                 /\ "attemptsUsed" \in DOMAIN resp'
                 /\ results' = results
                 /\ notifications' = notifications
            ELSE IF resp'.abandonedQuiz
            THEN /\ resp'.code = 200
                 /\ Len(results') = Len(results) + 1
                 /\ SubSeq(results', 1, Len(results)) = results
                 /\ results'[Len(results')].userId = u
                 /\ results'[Len(results')].score = 0
                 /\ results'[Len(results')].abandoned
                 /\ countAttempts(results', u) = used + 1
                 /\ SubSeq(notifications', 1, Len(notifications)) = notifications
                 /\ Cardinality(added) = 1
                 /\ \A i \in added : /\ notifications'[i].type = "quiz_abandoned"
                                      /\ notifications'[i].recipientId = u
            ELSE ~isCurrentlyActive(quiz, now) =>
                     /\ resp'.code = 403
                     /\ "timeStatus" \in DOMAIN resp'
                     /\ results' = results
                     /\ notifications' = notifications]_vars

\* an attempt abandoned before the window opened was recorded, with its
\* notification
C22_Witness ==
    /\ resp.op = "submitQuizAnswers"
    /\ resp.abandonedQuiz
    /\ resp.code = 200
    /\ ~isCurrentlyActive(quiz, now)
    /\ Len(results) > 0
    /\ results[Len(results)].userId = resp.userId
    /\ results[Len(results)].abandoned
    /\ results[Len(results)].submittedAt = now
    /\ notifications[Len(notifications)].type = "quiz_abandoned"
    /\ notifications[Len(notifications)].recipientId = resp.userId
    /\ countAttempts(results, resp.userId) < quiz.maxAttempts

\* the completion percentage after n results
completionPercentage(n) == percent(n, Cardinality(StudentIds))

\* the majority-completion notifications to the teacher
majorityNotifications(ns) ==
    {i \in 1..Len(ns) : ns[i].type = "quiz_majority_complete"}

\* C3: the majority-completion notification fires on the accepted submission
\* whose resulting completion percentage first reaches 50% or more, and on no
\* submission before or after that one.
C3_MajorityFiresExactlyOnce ==
    [][(submitStep /\ Len(results') = Len(results) + 1 /\ ~results'[Len(results')].abandoned) =>
        ((majorityNotifications(notifications') # majorityNotifications(notifications))
            <=> (completionPercentage(Len(results')) >= 50
                    /\ completionPercentage(Len(results)) < 50))]_vars

\* the quiz_assigned notifications to students
assignedToStudents(ns) ==
    {i \in 1..Len(ns) : ns[i].type = "quiz_assigned" /\ ns[i].recipientRole = "student"}

\* C4: a scheduleQuiz call after a dispatch that created notifications for
\* students creates none for students and reports
\* {success: true, skipped: true, count} with count the number the first
\* dispatch created.
C4_SecondDispatchSkipsWithOriginalCount ==
    [][(resp'.op = "scheduleQuiz" /\ resp'.code = 200 /\ assignedToStudents(notifications) # {}) =>
        /\ assignedToStudents(notifications') = assignedToStudents(notifications)
        /\ resp'.notificationResult =
               [success |-> TRUE, skipped |-> TRUE, error |-> "",
                count |-> Cardinality(assignedToStudents(notifications))]]_vars

\* the table the year filter is read from
yearOfAcademicYear == <<"1st year", "2nd year", "3rd year", "4th year">>

\* the students a dispatch with the given semester and academicYear (0..4, ""
\* and 0 for none given) is meant for
eligible(semester, academicYear) ==
    {id \in StudentIds :
        /\ semester # "" => Students[id].semester = semester
        /\ academicYear # 0 => Students[id].year = yearOfAcademicYear[academicYear]}

\* the step is the first successful scheduleQuiz call for the draft; the quiz
\* then holds the semester and academicYear the call gave
firstDispatch ==
    /\ resp'.op = "scheduleQuiz" /\ resp'.code = 200
    /\ ~quiz.isScheduled /\ quiz.semester = "" /\ quiz.academicYear = 0
    /\ quiz'.academicYear \in 0..4

\* the quiz_assigned notifications of ns for the student id
assignedTo(ns, id) == {i \in assignedToStudents(ns) : ns[i].recipientId = id}

\* the mails of es after the first k, addressed to id
mailsAfter(es, k, id) == {i \in (k + 1)..Len(es) : es[i].to = id}

\* C12: on a first dispatch the students who get a quiz_assigned notification are
\* exactly those whose semester equals the given semester (when given) and whose
\* year is the string the table maps the given academicYear to (when given);
\* each of them gets exactly one.
C12_RecipientsAreTheEligibleStudents ==
    [][firstDispatch =>
        \A id \in StudentIds :
            Cardinality(assignedTo(notifications', id)) =
                (IF id \in eligible(quiz'.semester, quiz'.academicYear) THEN 1 ELSE 0)]_vars

\* a dispatch for "1st semester", year 1 notified s1 and nobody else
C12_Witness ==
    /\ resp.op = "scheduleQuiz" /\ resp.code = 200
    /\ ~resp.notificationResult.skipped
    /\ quiz.semester = "1st semester" /\ quiz.academicYear = 1
    /\ {notifications[i].recipientId : i \in assignedToStudents(notifications)} = {"s1"}
    /\ Cardinality(assignedToStudents(notifications)) = 1

\* C13: when no student matches the filter, createQuizNotification returns
\* {success: false, error}, inserts no notification and sends no mail (the
\* notification and the mail scheduleQuiz adds afterwards go to the teacher).
C13_NoMatchFailsWithoutEffect ==
    [][(firstDispatch /\ eligible(quiz'.semester, quiz'.academicYear) = {}) =>
        /\ resp'.notificationResult.success = FALSE
        /\ resp'.notificationResult.error # ""
        /\ \A i \in (Len(notifications) + 1)..Len(notifications') :
               notifications'[i].recipientRole = "teacher"
        /\ \A i \in (Len(emails) + 1)..Len(emails') : emails'[i].to = TeacherId]_vars

\* a dispatch for "2nd semester", year 3, which no student is in, failed
C13_Witness ==
    /\ resp.op = "scheduleQuiz" /\ resp.code = 200
    /\ quiz.semester = "2nd semester" /\ quiz.academicYear = 3
    /\ ~resp.notificationResult.success
    /\ assignedToStudents(notifications) = {}

\* C14: a dispatch invokes the mail collaborator exactly once for each notified
\* student whose emailNotifications preference is true or unset and who has an
\* email address, and not at all for any other student.
C14_AssignmentMailFollowsPreference ==
    [][firstDispatch =>
        \A id \in StudentIds :
            Cardinality(mailsAfter(emails', Len(emails), id)) =
                (IF /\ assignedTo(notifications', id) # {}
                    /\ Students[id].emailNotifications \in {"on", "unset"}
                    /\ Students[id].hasEmail
                 THEN 1 ELSE 0)]_vars

\* a dispatch to all four students mailed s1 (unset) and s4 (on), not s2 (off,
\* with address) nor s3 (no address)
C14_Witness ==
    /\ resp.op = "scheduleQuiz" /\ resp.code = 200
    /\ resp.notificationResult.count = 4 /\ ~resp.notificationResult.skipped
    /\ \A id \in StudentIds : assignedTo(notifications, id) # {}
    /\ {emails[i].to : i \in 1..Len(emails)} \cap StudentIds = {"s1", "s4"}

\* C15: no flow delivers a mail to a user whose emailNotifications setting is
\* off.
C15_NoMailToDisabledUser ==
    \A i \in 1..Len(emails) :
        emails[i].to \in StudentIds => Students[emails[i].to].emailNotifications # "off"

\* the step records a graded (not abandoned) QuizResult
gradedStep ==
    /\ submitStep
    /\ Len(results') = Len(results) + 1
    /\ ~results'[Len(results')].abandoned

\* C24: when sendEmail rejects the mail of a student during a dispatch, the mail
\* of every other notified student with the preference on and an address is
\* still attempted, the notifications inserted for all matching students stay,
\* and createQuizNotification returns {success: true, count} with count the
\* number of matching students.
C24_RejectedMailDoesNotStopDispatch ==
    [][(/\ firstDispatch
        /\ \E i \in (Len(emails) + 1)..Len(emails') :
               emails'[i].to \in StudentIds /\ ~emails'[i].delivered) =>
        LET matching == eligible(quiz'.semester, quiz'.academicYear)
        IN  /\ \A id \in matching :
                   (Students[id].emailNotifications # "off" /\ Students[id].hasEmail) =>
                       mailsAfter(emails', Len(emails), id) # {}
            /\ \A id \in matching : assignedTo(notifications', id) # {}
            /\ resp'.notificationResult.success
            /\ ~resp'.notificationResult.skipped
            /\ resp'.notificationResult.count = Cardinality(matching)]_vars

\* the mail to s1 was rejected and the mail to s4, later in the loop, was
\* delivered; all four students keep their notification
C24_Witness ==
    /\ resp.op = "scheduleQuiz" /\ resp.code = 200
    /\ resp.notificationResult.success /\ resp.notificationResult.count = 4
    /\ \A id \in StudentIds : assignedTo(notifications, id) # {}
    /\ \E i, j \in 1..Len(emails) :
           /\ i < j
           /\ emails[i].to = "s1" /\ ~emails[i].delivered
           /\ emails[j].to = "s4" /\ emails[j].delivered

\* C29: when the scheduleQuiz calls so far matched no student, a later
\* scheduleQuiz call whose filter matches students creates a quiz_assigned
\* notification for each of them: the student notifications are skipped only
\* when student notifications for the quiz exist already.
C29_LaterDispatchReachesStudents ==
    [][(/\ resp'.op = "scheduleQuiz" /\ resp'.code = 200
        /\ quiz.isScheduled
        /\ assignedToStudents(notifications) = {}
        /\ quiz'.semester # quiz.semester
        /\ quiz'.academicYear # quiz.academicYear
        /\ quiz'.academicYear \in 1..4) =>
            /\ \A id \in eligible(quiz'.semester, quiz'.academicYear) :
                   assignedTo(notifications', id) # {}
            /\ ~resp'.notificationResult.skipped]_vars

\* C19: an accepted non-abandoned submission by a student who has an email
\* address invokes the mail collaborator exactly once for that student.
C19_OneSubmissionMail ==
    [][(gradedStep /\ Students[resp'.userId].hasEmail) =>
        Cardinality(mailsAfter(emails', Len(emails), resp'.userId)) = 1]_vars

\* C20: the recorded score of an accepted non-abandoned submission is
\* round(100 * c / n), with c the number of questions that have an option
\* flagged correct and whose submitted answer is that option's index.
C20_ScoreIsRoundedShareOfCorrect ==
    [][gradedStep =>
        LET r == results'[Len(results')]
            n == Len(quiz.questions)
            c == Cardinality({i \in 1..n :
                                 /\ quiz.questions[i] # -1
                                 /\ r.answers[i].userAnswer = ToString(quiz.questions[i])})
        IN  /\ r.score \in 0..100
            /\ r.score = (200 * c + n) \div (2 * n)]_vars

(***************************************************************************)
(* Properties of the notification feed (NotificationSpec).                 *)
(***************************************************************************)
\* the dedup key of a notification, <<>> when it has none: the quizId for an
\* ungraded quiz_assigned, the quizId with the score for a quiz_graded or a
\* graded quiz_assigned
dedupKey(n) ==
    IF n.quizId = "" THEN <<>>
    ELSE IF n.type = "quiz_assigned" /\ n.status # "graded" THEN <<"assigned", n.quizId>>
    ELSE IF n.type = "quiz_graded" \/ (n.type = "quiz_assigned" /\ n.status = "graded")
    THEN <<"graded", n.quizId, n.score>>
    ELSE <<>>

\* the positions of list that hold the first notification of their key, or a
\* notification without a key
firstSeen(list) ==
    {i \in 1..Len(list) :
        dedupKey(list[i]) = <<>>
            \/ \A j \in 1..(i - 1) : dedupKey(list[j]) # dedupKey(list[i])}

\* the ids of the notifications at the positions P of list
idsAt(list, P) == {list[i].id : i \in P}

\* C16: uniqueNotifications holds, in input order, every notification without a
\* key and the first-seen notification of each key, and nothing else.
C16_KeepsFirstSeenPerKey ==
    resp.op = "deduplicateNotifications" =>
        LET keep(n) == n.id \in idsAt(resp.input, firstSeen(resp.input))
        IN  resp.uniqueNotifications = SelectSeq(resp.input, keep)

\* three quiz_graded notifications of one quiz: the second has the score of the
\* first and is dropped, the third has another score and is kept
C16_Witness ==
    /\ resp.op = "deduplicateNotifications"
    /\ Len(resp.input) = 3
    /\ \A i \in 1..3 : resp.input[i].type = "quiz_graded" /\ resp.input[i].recipientId = "s1"
    /\ resp.input[1].score = resp.input[2].score
    /\ resp.input[3].score # resp.input[1].score
    /\ resp.uniqueNotifications = <<resp.input[1], resp.input[3]>>

\* C17: deduplicateNotifications applied to its own uniqueNotifications returns
\* the same list in the same order and no duplicateIds.
C17_DeduplicateIsIdempotent ==
    (resp.op = "deduplicateNotifications" /\ resp.pass = 2) =>
        /\ resp.uniqueNotifications = resp.input
        /\ resp.duplicateIds = <<>>

\* the second pass ran on the output of a first pass that had dropped two of
\* three notifications
C17_Witness ==
    /\ resp.op = "deduplicateNotifications" /\ resp.pass = 2
    /\ Len(notifications) = 3
    /\ Len(resp.input) = 1
    /\ resp.uniqueNotifications = resp.input

\* the positions of the collection ns a getNotifications call of userId with
\* the given filter fetches
fetchedPositions(ns, userId, filter) ==
    {i \in 1..Len(ns) : ns[i].recipientId = userId /\ (filter = "unread" => ~ns[i].isRead)}

\* the fetched positions that are not the first (newest) of their key
duplicatePositions(ns, F) ==
    {i \in F : dedupKey(ns[i]) # <<>>
                  /\ \E j \in F : j > i /\ dedupKey(ns[j]) = dedupKey(ns[i])}

\* C18: getNotifications sets isRead on exactly the fetched notifications that
\* are duplicates and unread, leaves every other record unchanged, and leaves
\* at most one unread notification per key among the fetched records.
C18_MarksExactlyUnreadDuplicates ==
    [][resp'.op = "getNotifications" =>
        LET F == fetchedPositions(notifications, resp'.userId, resp'.filter)
            D == duplicatePositions(notifications, F)
        IN  /\ Len(notifications') = Len(notifications)
            /\ \A i \in 1..Len(notifications) :
                   notifications'[i] =
                       IF i \in D /\ ~notifications[i].isRead
                       THEN [notifications[i] EXCEPT !.isRead = TRUE]
                       ELSE notifications[i]
            /\ \A i, j \in F :
                   (i # j /\ dedupKey(notifications'[i]) # <<>>
                       /\ dedupKey(notifications'[i]) = dedupKey(notifications'[j]))
                       => notifications'[i].isRead \/ notifications'[j].isRead]_vars

\* s1's feed was read: of two assignments of quiz q2 (which are stored unread)
\* the older is now read and the newer still unread, and s2's notification is
\* as it was
C18_Witness ==
    /\ resp.op = "getNotifications" /\ resp.userId = "s1"
    /\ Len(notifications) = 3
    /\ notifications[1].recipientId = "s2" /\ ~notifications[1].isRead
    /\ notifications[2].quizId = "q2" /\ notifications[2].isRead
    /\ notifications[3].quizId = "q2" /\ ~notifications[3].isRead
    /\ resp.unreadCount = 1

\* C25: for every stored set of at most 50 notifications of a user with in-app
\* notifications on, the count getUnreadCount returns equals the unreadCount
\* getNotifications returns on the same store state, in either order of the
\* two calls.
C25_UnreadCountsAgree ==
    [][/\ (resp'.op = "getUnreadCount" /\ inAppNotificationsEnabled(resp'.userId)) =>
               LET unread(n) == ~n.isRead
                   feed == deduplicateNotifications(fetched(notifications, resp'.userId, "all"))
               IN  resp'.count = Len(SelectSeq(feed.uniqueNotifications, unread))
       /\ (/\ resp'.op = "getNotifications" /\ resp'.filter = "all"
           /\ inAppNotificationsEnabled(resp'.userId)) =>
               resp'.unreadCount =
                   Len(deduplicateNotifications(fetchedUnread(notifications, resp'.userId))
                           .uniqueNotifications)]_vars

(***************************************************************************)
(* Properties of the quiz's life (LifecycleSpec, CleanupSpec).             *)
(***************************************************************************)
\* C26: whenever getSharedQuizzes reports a quiz to a student with
\* isCurrentlyActive = true and canAttempt = true, a submitQuizAnswers call of
\* that student at the same instant that is not abandoned, with no record of
\* the student in the previous 5 seconds, is accepted and recorded.
C26_FeedActiveMeansSubmitAccepted ==
    [][(/\ resp.op = "getSharedQuizzes"
        /\ Len(resp.quizzes) = 1
        /\ resp.quizzes[1].isCurrentlyActive
        /\ resp.quizzes[1].canAttempt
        /\ submitStep
        /\ resp'.userId = resp.userId
        /\ ~resp'.abandonedQuiz
        /\ recordedInLast5s(results, resp.userId, now) = {}) =>
            /\ resp'.code = 200
            /\ Len(results') = Len(results) + 1
            /\ results'[Len(results')].userId = resp.userId]_vars

\* C27: once deleteQuiz has soft-deleted a quiz, no submitQuizAnswers call
\* creates a QuizResult or a notification for it, and no notification that
\* references the quiz exists in any later state.
C27_DeletedQuizTakesNoSubmission ==
    [][quiz.isDeleted =>
        /\ results' = results
        /\ \A i \in DOMAIN notifications' : notifications'[i].quizId # QuizId]_vars

\* C30: the quiz_graded notifications of two accepted attempts of one student
\* on one quiz, which carry different submissionIds, are not collapsed:
\* getNotifications returns both and marks neither read, whatever the scores.
C30_AttemptsAreNotCollapsed ==
    [][resp'.op = "getNotifications" =>
        \A i \in DOMAIN notifications :
            (/\ notifications[i].recipientId = resp'.userId
             /\ notifications[i].type = "quiz_graded") =>
                /\ \E k \in DOMAIN resp'.notifications :
                       resp'.notifications[k].id = notifications[i].id
                /\ notifications'[i].isRead = notifications[i].isRead]_vars

\* C28: after any sequence of scheduleQuiz, updateQuiz and
\* cleanupExpiredQuizzes calls, the clean-up soft-deletes a quiz only when its
\* effective status is neither scheduled nor active and now is at least one
\* month past the end of the quiz's current window.
C28_CleanupSparesCurrentWindow ==
    [][(resp'.op = "cleanupExpiredQuizzes" /\ ~quiz.isDeleted /\ quiz'.isDeleted) =>
        /\ teacherQuizzesStatus(quiz, now) \notin {"scheduled", "active"}
        /\ Has(calculateExpiryDate(quiz))
        /\ AtOrBefore(calculateExpiryDate(quiz), now)]_vars

====
